---- MODULE Spec2Model ----
(***************************************************************************)
(* A model of tract_querier/tract_math/operations.py: the voxel-space      *)
(* operations on tractographies (voxelized_tract, tract_volume,            *)
(* tract_kappa, tract_kappa_volume, tract_dice,                            *)
(* tract_bhattacharyya_coefficient, tract_mask, tract_probability_map,     *)
(* tract_generate_probability_map, tract_smooth).                          *)
(*                                                                         *)
(* Numbers.  A physical coordinate is kept in fixed point: the integer c   *)
(* stands for c / Unit.  A resolution and a smoothing parameter are kept   *)
(* the same way.  A Python/numpy float that is the result of an operation  *)
(* is an extended rational [k, n, d]: k = "fin" with value n / d (d > 0,   *)
(* reduced), or "nan", "pinf", "ninf".  Rounding error of binary floating  *)
(* point is not modelled: arithmetic on finite values is exact.            *)
(***************************************************************************)
EXTENDS Integers, Sequences, FiniteSets, TLC

VARIABLES
    tractography,   \* the tractography the operation is called on: its streamlines
    loaded,         \* the streamlines as they were loaded; no operation writes this copy
    resolution,     \* the <volume unit> argument, in fixed point
    other_tracts,   \* the file names <tract1.vtk> ... <tractN.vtk>
    files,          \* what tractography_from_files loads for each file name
    image,          \* the image of tract_mask / tract_probability_map
    var,            \* the <var> argument of tract_smooth, in fixed point
    op,             \* the operation that ran last ("" before any)
    raised,         \* the exception that ended it ("" when it returned)
    voxels,         \* local voxels of tract_volume / tract_kappa / tract_dice
    voxels1,        \* local voxels1 of the last comparison of tract_kappa / tract_dice
    chance_log,     \* local chance_agreement of tract_kappa, one per comparison made
    volume,         \* the 'tract volume' returned
    table,          \* local result of a comparison: the OrderedDict of columns
    grid,           \* the array returned by the operations on image grids
    smoothed,       \* the streamlines of the Tractography tract_smooth returns
    returned,       \* "value" when a return statement gave the result, "None" when
                    \* the operation ended without one, "" when it raised
    N_log,          \* local N of tract_kappa, one per comparison made
    nn_log,         \* local nn of tract_kappa, one per comparison made
    mn_,            \* local mn_ of tract_bhattacharyya_coefficient after its first loop
    mx_,            \* local mx_ of tract_bhattacharyya_coefficient after its first loop
    std,            \* local std of tract_smooth
    N_neighbors     \* local N of the loop of tract_smooth, one per streamline smoothed

vars == <<tractography, loaded, resolution, other_tracts, files, image, var, op, raised,
          voxels, voxels1, chance_log, volume, table, grid, smoothed, returned,
          N_log, nn_log, mn_, mx_, std, N_neighbors>>

----------------------------------------------------------------------------
(* Bounds of the model *)

\* Fixed-point scale: the integer c stands for the coordinate c / Unit.
Unit == 2
\* The most streamlines in a tractography.
MaxTracts == 2
\* The most comparison files handed to tract_kappa / tract_dice.
MaxOthers == 2
\* numpy's int64 is modelled by integers of IntBits bits, wide enough that no
\* count or product of the finite voxel indices of the model wraps.
IntBits == 12

Half == Unit \div 2
IntMax == 2 ^ (IntBits - 1) - 1
IntMin == - IntMax - 1
\* int64 arithmetic wraps
Wrap(x) == ((x - IntMin) % (2 ^ IntBits)) + IntMin

----------------------------------------------------------------------------
(* Floats: extended rationals *)

RECURSIVE GCD(_, _)
GCD(a, b) == IF b = 0 THEN a ELSE GCD(b, a % b)

Abs(x) == IF x < 0 THEN -x ELSE x
Sign(x) == IF x < 0 THEN -1 ELSE IF x > 0 THEN 1 ELSE 0

NaN == [k |-> "nan", n |-> 0, d |-> 0]
PInf == [k |-> "pinf", n |-> 0, d |-> 0]
NInf == [k |-> "ninf", n |-> 0, d |-> 0]
IsFin(a) == a.k = "fin"
FSign(a) == IF a.k = "pinf" THEN 1 ELSE IF a.k = "ninf" THEN -1 ELSE Sign(a.n)
InfOfSign(s) == IF s > 0 THEN PInf ELSE IF s < 0 THEN NInf ELSE NaN

\* Each operation comes as a pair: OpV on values, and Op, which evaluates its
\* operands once and applies OpV to the values.
FinV(n, d) ==
    LET g == GCD(Abs(n), Abs(d))
        s == Sign(d)
    IN  [k |-> "fin", n |-> (s * n) \div g, d |-> (s * d) \div g]
\* the finite float n / d, d # 0
Fin(x, y) == CHOOSE r \in { FinV(n, d) : n \in {x}, d \in {y} } : TRUE

FAddV(a, b) ==
    IF a.k = "nan" \/ b.k = "nan" THEN NaN
    ELSE IF IsFin(a) /\ IsFin(b) THEN Fin(a.n * b.d + b.n * a.d, a.d * b.d)
    ELSE IF IsFin(a) THEN b
    ELSE IF IsFin(b) THEN a
    ELSE IF a.k = b.k THEN a ELSE NaN
FAdd(x, y) == CHOOSE r \in { FAddV(a, b) : a \in {x}, b \in {y} } : TRUE

FNegV(a) ==
    IF a.k = "nan" THEN NaN
    ELSE IF a.k = "pinf" THEN NInf
    ELSE IF a.k = "ninf" THEN PInf
    ELSE Fin(- a.n, a.d)
FSub(x, y) == CHOOSE r \in { FAddV(a, FNegV(b)) : a \in {x}, b \in {y} } : TRUE

FMulV(a, b) ==
    IF a.k = "nan" \/ b.k = "nan" THEN NaN
    ELSE IF IsFin(a) /\ IsFin(b) THEN Fin(a.n * b.n, a.d * b.d)
    ELSE InfOfSign(FSign(a) * FSign(b))
FMul(x, y) == CHOOSE r \in { FMulV(a, b) : a \in {x}, b \in {y} } : TRUE

\* numpy float64 division: a zero divisor gives nan or an infinity (and a
\* RuntimeWarning), never an exception.  The zero divisors of the model are +0.0.
FDivV(a, b) ==
    IF a.k = "nan" \/ b.k = "nan" THEN NaN
    ELSE IF IsFin(a) /\ IsFin(b)
         THEN IF b.n = 0 THEN InfOfSign(Sign(a.n)) ELSE Fin(a.n * b.d, a.d * b.n)
    ELSE IF IsFin(a) THEN Fin(0, 1)
    ELSE IF IsFin(b) THEN InfOfSign(FSign(a) * (IF b.n < 0 THEN -1 ELSE 1))
    ELSE NaN
FDiv(x, y) == CHOOSE r \in { FDivV(a, b) : a \in {x}, b \in {y} } : TRUE

FInt(i) == Fin(i, 1)

----------------------------------------------------------------------------
(* Streamlines of the model's inputs *)

Pt(x, y, z) == <<x, y, z>>
\* a streamline of a single point
Origin == << Pt(0, 0, 0) >>
\* a streamline without points (an array of shape 0 x 3)
NoPoints == << >>
\* x coordinates exactly halfway between two integers
HalfLine == << Pt(Half, 0, 0), Pt(Unit + Half, 0, 0), Pt(3 * Unit, 0, 0) >>
\* the U-shaped streamline (0,0,0),(1,0,0),(2,0,0),(2,1,0),(2,2,0)
UShape == << Pt(0, 0, 0), Pt(Unit, 0, 0), Pt(2 * Unit, 0, 0),
             Pt(2 * Unit, Unit, 0), Pt(2 * Unit, 2 * Unit, 0) >>
\* a voxel and its six face neighbours
Cross == << Pt(0, Unit, Unit), Pt(Unit, Unit, Unit), Pt(2 * Unit, Unit, Unit),
            Pt(Unit, 0, Unit), Pt(Unit, 2 * Unit, Unit),
            Pt(Unit, Unit, 0), Pt(Unit, Unit, 2 * Unit) >>
Corner == << Pt(Unit, Unit, Unit) >>

Catalogue == << Origin, NoPoints, HalfLine, UShape, Cross >>

\* the tractographies of at most n streamlines of the catalogue, the streamlines
\* taken in catalogue order; ix is the sequence of their catalogue indices
RECURSIVE IndexSeqsUpTo(_)
IndexSeqsUpTo(n) ==
    IF n = 0 THEN { << >> }
    ELSE LET prev == IndexSeqsUpTo(n - 1)
         IN  prev \cup { Append(t, i) : t \in { u \in prev : Len(u) = n - 1 },
                                        i \in 1..Len(Catalogue) }
NonDecreasing(ix) == \A i \in 1..(Len(ix) - 1) : ix[i] <= ix[i + 1]
TractsUpTo(n) ==
    { [i \in 1..Len(ix) |-> Catalogue[ix[i]]] : ix \in { u \in IndexSeqsUpTo(n) : NonDecreasing(u) } }

Translate(tracts, v) ==
    [i \in 1..Len(tracts) |->
        [j \in 1..Len(tracts[i]) |->
            Pt(tracts[i][j][1] + v[1], tracts[i][j][2] + v[2], tracts[i][j][3] + v[3])]]

----------------------------------------------------------------------------
(* voxelized_tract *)

Range(s) == { s[i] : i \in 1..Len(s) }
Max(S) == CHOOSE x \in S : \A y \in S : y <= x
Min(S) == CHOOSE x \in S : \A y \in S : x <= y

\* numpy.vstack(tractography.tracts()): the points of all streamlines, in order
RECURSIVE vstack(_)
vstack(tracts) ==
    IF Len(tracts) = 0 THEN << >>
    ELSE [j \in 1..Len(tracts[1]) |-> tracts[1][j]]
         \o vstack([i \in 1..(Len(tracts) - 1) |-> tracts[i + 1]])

\* a / b rounded to the nearest integer, a tie to the even one (numpy.round), b # 0
RoundHalfEven(a, b) ==
    LET n == IF b < 0 THEN - a ELSE a
        m == Abs(b)
        f == n \div m
        r == n % m
    IN  IF 2 * r < m THEN f
        ELSE IF 2 * r > m THEN f + 1
        ELSE IF f % 2 = 0 THEN f ELSE f + 1

\* astype(int) of a value that is not finite is undefined in C; what it gives
\* depends on the build: x86-64 gives the int64 minimum for every such value,
\* AArch64 saturates the infinities and gives 0 for nan.
Builds == {"x86_64", "aarch64"}
\* s: 1 for +inf, -1 for -inf, 0 for nan
CastNonFinite(s, build) ==
    IF build = "x86_64" THEN IntMin
    ELSE IF s > 0 THEN IntMax ELSE IF s < 0 THEN IntMin ELSE 0

\* one coordinate c: c / resolution, rounded, cast to int
voxel_index(c, res, build) ==
    IF res = 0 THEN CastNonFinite(Sign(c), build) ELSE RoundHalfEven(c, res)

\* the set of voxels of the points of a tractography; no check of the
\* resolution; numpy.vstack raises ValueError when there is no streamline
voxelized_tract(tracts, res, build) ==
    IF Len(tracts) = 0
    THEN [raised |-> "ValueError", voxels |-> {}]
    ELSE [raised |-> "",
          voxels |-> { << voxel_index(p[1], res, build),
                          voxel_index(p[2], res, build),
                          voxel_index(p[3], res, build) >> : p \in Range(vstack(tracts)) }]

----------------------------------------------------------------------------
(* tract_volume *)

neighbors == << <<0, 1, 0>>, <<0, -1, 0>>, <<1, 0, 0>>, <<-1, 0, 0>>, <<0, 0, 1>>, <<0, 0, -1>> >>

\* zip(*(neighbors + voxel).T)
neighbors_list(voxel) ==
    { << Wrap(neighbors[i][1] + voxel[1]), Wrap(neighbors[i][2] + voxel[2]),
         Wrap(neighbors[i][3] + voxel[3]) >> : i \in 1..Len(neighbors) }

dilated_voxels(vox) == vox \cup UNION { neighbors_list(v) : v \in vox }

\* the test made against len(voxel), the 3 coordinates, in place of len(neighbors)
eroded_voxels_len_voxel(vox) ==
    { v \in vox : Cardinality(vox \cap neighbors_list(v)) = 3 }

eroded_voxels(vox) ==
    { v \in vox : Cardinality(vox \cap neighbors_list(v)) = Len(neighbors) }

\* resolution as a float, and its cube
ResFloat(res) == Fin(res, Unit)
Cube(x) == CHOOSE r \in { FMulV(a, FMulV(a, a)) : a \in {x} } : TRUE

\* the part of tract_volume after the voxelization v
volume_of(v, res) ==
    IF v.raised # ""
    THEN [raised |-> v.raised, voxels |-> {}, volume |-> NaN]
    ELSE [raised |-> "", voxels |-> v.voxels,
          volume |-> FMul(Fin(Cardinality(dilated_voxels(v.voxels))
                              - Cardinality(eroded_voxels(v.voxels)), 2),
                          Cube(ResFloat(res)))]

tract_volume(tracts, res, build) ==
    CHOOSE r \in { volume_of(v, res) : v \in { voxelized_tract(tracts, res, build) } } : TRUE

NoRange == << >>

----------------------------------------------------------------------------
(* tract_kappa *)

EmptyTable == [files |-> << >>, values |-> << >>]
StartLoop ==
    [raised |-> "", files |-> << >>, values |-> << >>, voxels1 |-> {}, chances |-> << >>,
     Ns |-> << >>, nns |-> << >>]

\* (all_voxels.max(0) - all_voxels.min(0)).prod(), in int64
BoxProduct(all) ==
    LET ext(a) == Wrap(Max({ v[a] : v \in all }) - Min({ v[a] : v \in all }))
    IN  Wrap(Wrap(ext(1) * ext(2)) * ext(3))

\* the arithmetic of tract_kappa on N and the three counts
kappa_of(N, cpp, cpn, cnp) ==
    LET pp == FInt(cpp)
        pn == FInt(cpn)
        np == FInt(cnp)
        nn == FSub(FSub(FSub(FInt(N), pp), pn), np)
        observed_agreement == FDiv(FAdd(pp, nn), FInt(N))
        chance_agreement ==
            FDiv(FAdd(FMul(FAdd(pp, pn), FAdd(pp, np)), FMul(FAdd(nn, np), FAdd(nn, pn))),
                 FInt(Wrap(N * N)))
    IN  CHOOSE r \in
            { [raised |-> "", chance |-> c, N |-> N, nn |-> n2,
               k |-> FDiv(FSub(o, c), FSub(FInt(1), c))]
              : o \in { observed_agreement }, c \in { chance_agreement }, n2 \in { nn } } : TRUE

\* the body of the loop of tract_kappa for one comparison; max() of an empty
\* array raises ValueError
kappa_value(vox, vox1) ==
    IF vox \cup vox1 = {}
    THEN [raised |-> "ValueError", chance |-> NaN, N |-> 0, nn |-> NaN, k |-> NaN]
    ELSE CHOOSE r \in
            { kappa_of(N, cpp, cpn, cnp)
              : N \in { BoxProduct(vox \cup vox1) },
                cpp \in { Cardinality(vox \cap vox1) },
                cpn \in { Cardinality(vox \ vox1) },
                cnp \in { Cardinality(vox1 \ vox) } } : TRUE

\* one iteration: acc is the table before it, v1 the voxelization of the file
kappa_body(vox, tract, v1, acc) ==
    IF v1.raised # "" THEN [acc EXCEPT !.raised = v1.raised]
    ELSE CHOOSE r \in
            { IF kv.raised # ""
              THEN [acc EXCEPT !.raised = kv.raised, !.voxels1 = v1.voxels]
              ELSE [raised |-> "",
                    files |-> Append(acc.files, tract),
                    values |-> Append(acc.values, kv.k),
                    voxels1 |-> v1.voxels,
                    chances |-> Append(acc.chances, kv.chance),
                    Ns |-> Append(acc.Ns, kv.N),
                    nns |-> Append(acc.nns, kv.nn)]
              : kv \in { kappa_value(vox, v1.voxels) } } : TRUE

\* the loop over other_tracts; an exception ends it
RECURSIVE kappa_loop(_, _, _, _, _, _)
kappa_loop(vox, res, names, fs, build, acc) ==
    IF Len(names) = 0 THEN acc
    ELSE CHOOSE r \in
            { IF next.raised # "" THEN next
              ELSE kappa_loop(vox, res, Tail(names), fs, build, next)
              : next \in { kappa_body(vox, Head(names), v1, acc)
                           : v1 \in { voxelized_tract(fs[Head(names)], res, build) } } } : TRUE

\* the part of tract_kappa / tract_dice after the loop: an exception leaves no table
comparison_result(v, r) ==
    [raised |-> r.raised, voxels |-> v.voxels, voxels1 |-> r.voxels1, chances |-> r.chances,
     Ns |-> r.Ns, nns |-> r.nns,
     table |-> IF r.raised # "" THEN EmptyTable
               ELSE [files |-> r.files, values |-> r.values]]

tract_kappa(tracts, res, names, fs, build) ==
    CHOOSE out \in
        { IF v.raised # ""
          THEN [raised |-> v.raised, voxels |-> {}, voxels1 |-> {}, chances |-> << >>,
                Ns |-> << >>, nns |-> << >>, table |-> EmptyTable]
          ELSE CHOOSE c \in { comparison_result(v, r)
                              : r \in { kappa_loop(v.voxels, res, names, fs, build, StartLoop) } } : TRUE
          : v \in { voxelized_tract(tracts, res, build) } } : TRUE

----------------------------------------------------------------------------
(* tract_kappa_volume *)

\* voxels = tract_mask(mask, tractography) is called with mask a numpy array in
\* the place of an image: tract_in_ijk stacks the streamlines (ValueError
\* without streamlines) and then asks the array for get_affine, which it does
\* not have.  The loop over other_tracts is never reached, whatever the
\* volume and the threshold.
tract_kappa_volume(tracts) ==
    IF Len(tracts) = 0 THEN [raised |-> "ValueError"]
    ELSE [raised |-> "AttributeError"]

----------------------------------------------------------------------------
(* tract_dice *)

\* 2 * len(voxels.intersection(voxels1)) * 1. / (len(voxels) + len(voxels1)):
\* a Python float divided by a Python int, which raises ZeroDivisionError
dice_value(vox, vox1) ==
    IF Cardinality(vox) + Cardinality(vox1) = 0
    THEN [raised |-> "ZeroDivisionError", dice |-> NaN]
    ELSE [raised |-> "",
          dice |-> Fin(2 * Cardinality(vox \cap vox1), Cardinality(vox) + Cardinality(vox1))]

dice_body(vox, tract, v1, acc) ==
    IF v1.raised # "" THEN [acc EXCEPT !.raised = v1.raised]
    ELSE CHOOSE r \in
            { IF dv.raised # ""
              THEN [acc EXCEPT !.raised = dv.raised, !.voxels1 = v1.voxels]
              ELSE [raised |-> "",
                    files |-> Append(acc.files, tract),
                    values |-> Append(acc.values, dv.dice),
                    voxels1 |-> v1.voxels,
                    chances |-> << >>, Ns |-> << >>, nns |-> << >>]
              : dv \in { dice_value(vox, v1.voxels) } } : TRUE

RECURSIVE dice_loop(_, _, _, _, _, _)
dice_loop(vox, res, names, fs, build, acc) ==
    IF Len(names) = 0 THEN acc
    ELSE CHOOSE r \in
            { IF next.raised # "" THEN next
              ELSE dice_loop(vox, res, Tail(names), fs, build, next)
              : next \in { dice_body(vox, Head(names), v1, acc)
                           : v1 \in { voxelized_tract(fs[Head(names)], res, build) } } } : TRUE

tract_dice(tracts, res, names, fs, build) ==
    CHOOSE out \in
        { IF v.raised # ""
          THEN [raised |-> v.raised, voxels |-> {}, voxels1 |-> {}, chances |-> << >>,
                Ns |-> << >>, nns |-> << >>, table |-> EmptyTable]
          ELSE CHOOSE c \in { comparison_result(v, r)
                              : r \in { dice_loop(v.voxels, res, names, fs, build, StartLoop) } } : TRUE
          : v \in { voxelized_tract(tracts, res, build) } } : TRUE

----------------------------------------------------------------------------
(* tract_bhattacharyya_coefficient *)

\* result as it is created: the 'tract file' column and one column per axis
EmptyCoefficients == [files |-> << >>, X |-> << >>, Y |-> << >>, Z |-> << >>]

\* bins is what numpy.ceil gives, a float.  The releases of numpy that take it
\* for a number of bins and the releases that ask for an integer, and raise
\* TypeError, are both outcomes of a run.
Numpys == {"float bins", "integer bins"}

\* pts.min(0), pts.max(0), numpy.minimum, numpy.maximum
min0(pts) == [a \in 1..3 |-> Min({ pts[j][a] : j \in 1..Len(pts) })]
max0(pts) == [a \in 1..3 |-> Max({ pts[j][a] : j \in 1..Len(pts) })]
minimum(u, v) == [a \in 1..3 |-> IF u[a] <= v[a] THEN u[a] ELSE v[a]]
maximum(u, v) == [a \in 1..3 |-> IF u[a] >= v[a] THEN u[a] ELSE v[a]]

\* for pts in other_tracts_points: mn_ = minimum(mn_, pts.min(0)) and
\* mx_ = maximum(mn_, pts.max(0)), with the mn_ just assigned; min of an
\* array without points raises ValueError
RECURSIVE range_loop(_, _, _)
range_loop(mn, mx, others) ==
    IF Len(others) = 0 THEN [raised |-> "", mn |-> mn, mx |-> mx]
    ELSE IF Len(Head(others)) = 0 THEN [raised |-> "ValueError", mn |-> mn, mx |-> mx]
    ELSE CHOOSE r \in
            { range_loop(m, maximum(m, max0(Head(others))), Tail(others))
              : m \in { minimum(mn, min0(Head(others))) } } : TRUE

\* numpy.ceil of a float
Ceil(a) == IF IsFin(a) THEN FInt(- ((- a.n) \div a.d)) ELSE a

\* bins[a] = numpy.ceil((mx_ - mn_) * 1. / resolution)[a], a numpy division
bins_of(mn, mx, res) == [a \in 1..3 |-> Ceil(FDiv(FInt(mx[a] - mn[a]), FInt(res)))]

\* what numpy.histogram raises for the number of bins b
histogram_raises(b, numpy) ==
    IF numpy = "integer bins" THEN "TypeError"
    ELSE IF b.k = "nan" THEN "ValueError"
    ELSE IF ~ IsFin(b) THEN "OverflowError"
    ELSE IF b.n < 1 THEN "ValueError"
    ELSE ""

\* the first exception of the three histograms of a list comprehension
histograms_raise(bins, numpy) ==
    IF histogram_raises(bins[1], numpy) # "" THEN histogram_raises(bins[1], numpy)
    ELSE IF histogram_raises(bins[2], numpy) # "" THEN histogram_raises(bins[2], numpy)
    ELSE histogram_raises(bins[3], numpy)

\* x falls in bin b of the B equal bins of [lo, hi]; the last bin holds hi
InBin(x, lo, hi, B, b) ==
    /\ lo <= x
    /\ x <= hi
    /\ (b - 1) * (hi - lo) <= (x - lo) * B
    /\ \/ (x - lo) * B < b * (hi - lo)
       \/ b = B /\ x = hi

\* the counts of numpy.histogram(pts[:, a], bins=B, range=(lo, hi)) before
\* density=True scales them; a point outside the range is not counted
histogram(pts, a, B, lo, hi) ==
    [b \in 1..B |-> Cardinality({ j \in 1..Len(pts) : InBin(pts[j][a], lo, hi, B, b) })]

in_range(pts, a, lo, hi) == Cardinality({ j \in 1..Len(pts) : lo <= pts[j][a] /\ pts[j][a] <= hi })

\* numpy.nan_to_num(distances[a]).  With density=True a histogram is
\* counts / (n * width) and sums to 1 / width, so that the sum of
\* sqrt(ho * ht / (ho.sum() * ht.sum())) over the bins is the sum of the square
\* roots of co * ct / (no * nt): roots holds these radicands.  A histogram
\* without a point in the range is 0 / 0 = nan in every bin, the distance is
\* nan and nan_to_num makes it 0.
distance_of(co, ct, no, nt) ==
    IF no = 0 \/ nt = 0 THEN [zeroed |-> TRUE, roots |-> << >>]
    ELSE [zeroed |-> FALSE, roots |-> [b \in 1..Len(co) |-> Fin(co[b] * ct[b], no * nt)]]

distances(pts, ref, mn, mx, bins) ==
    [a \in 1..3 |->
        distance_of(histogram(pts, a, bins[a].n, mn[a], mx[a]),
                    histogram(ref, a, bins[a].n, mn[a], mx[a]),
                    in_range(pts, a, mn[a], mx[a]), in_range(ref, a, mn[a], mx[a]))]

\* the loop over zip(other_tracts, other_tracts_points): the file name is
\* appended once per axis, a value once per column
RECURSIVE coefficient_loop(_, _, _, _, _, _, _)
coefficient_loop(names, others, ref, mn, mx, bins, acc) ==
    IF Len(names) = 0 THEN acc
    ELSE CHOOSE r \in
            { coefficient_loop(Tail(names), Tail(others), ref, mn, mx, bins,
                  [files |-> acc.files \o << Head(names), Head(names), Head(names) >>,
                   X |-> Append(acc.X, d[1]),
                   Y |-> Append(acc.Y, d[2]),
                   Z |-> Append(acc.Z, d[3])])
              : d \in { distances(Head(others), ref, mn, mx, bins) } } : TRUE

\* numpy.vstack raises ValueError for a tractography without streamlines, min
\* for one without points.  The function ends without a return statement.
tract_bhattacharyya_coefficient(tracts, res, names, fs, numpy) ==
    LET failed(e) == [raised |-> e, mn |-> NoRange, mx |-> NoRange, returned |-> "",
                      table |-> EmptyCoefficients]
    IN  IF Len(tracts) = 0 \/ \E i \in 1..Len(names) : Len(fs[names[i]]) = 0
        THEN failed("ValueError")
        ELSE IF Len(vstack(tracts)) = 0 THEN failed("ValueError")
        ELSE CHOOSE out \in
            { IF rg.raised # "" THEN failed(rg.raised)
              ELSE CHOOSE o \in
                    { IF histograms_raise(bins, numpy) # ""
                      THEN [failed(histograms_raise(bins, numpy))
                                EXCEPT !.mn = rg.mn, !.mx = rg.mx]
                      ELSE [raised |-> "", mn |-> rg.mn, mx |-> rg.mx, returned |-> "None",
                            table |-> coefficient_loop(names, others, ref, rg.mn, rg.mx, bins,
                                                       EmptyCoefficients)]
                      : bins \in { bins_of(rg.mn, rg.mx, res) } } : TRUE
              : ref \in { vstack(tracts) },
                others \in { [i \in 1..Len(names) |-> vstack(fs[names[i]])] },
                rg \in { range_loop(min0(vstack(tracts)), max0(vstack(tracts)),
                                    [i \in 1..Len(names) |-> vstack(fs[names[i]])]) } } : TRUE

----------------------------------------------------------------------------
(* The inputs and the operations on voxel sets *)

\* the <volume unit> arguments of the model: -1, 0, 1 and 2
Resolutions == { - Unit, 0, Unit, 2 * Unit }

FileNames == {"shifted.vtk", "corner.vtk", "nopoints.vtk"}

\* what each file holds, given the tractography the operation is called on
FileSystem(tracts) ==
    [f \in FileNames |->
        IF f = "shifted.vtk" THEN Translate(tracts, <<Unit, 0, 0>>)
        ELSE IF f = "corner.vtk" THEN << Corner >>
        ELSE << NoPoints >>]

RECURSIVE SeqsUpTo(_, _)
SeqsUpTo(S, n) ==
    IF n = 0 THEN { << >> }
    ELSE LET prev == SeqsUpTo(S, n - 1)
         IN  prev \cup { Append(t, x) : t \in { u \in prev : Len(u) = n - 1 }, x \in S }

NoImage == [shape |-> <<0, 0, 0>>, scale |-> <<0, 0, 0>>, origin |-> <<0, 0, 0>>]
NoGrid == << >>
NoResult ==
    /\ op = ""
    /\ raised = ""
    /\ voxels = {}
    /\ voxels1 = {}
    /\ chance_log = << >>
    /\ volume = NaN
    /\ table = EmptyTable
    /\ grid = NoGrid
    /\ smoothed = << >>
    /\ returned = ""
    /\ N_log = << >>
    /\ nn_log = << >>
    /\ mn_ = NoRange
    /\ mx_ = NoRange
    /\ std = 0
    /\ N_neighbors = << >>

Init ==
    /\ tractography \in TractsUpTo(MaxTracts)
    /\ loaded = tractography
    /\ resolution \in Resolutions
    /\ other_tracts \in SeqsUpTo(FileNames, MaxOthers)
    /\ files = FileSystem(tractography)
    /\ image = NoImage
    /\ var = 0
    /\ NoResult

\* what the operations on voxel sets and image grids leave alone
Inputs == <<tractography, loaded, resolution, other_tracts, files, image, var>>

VoxelizedTract ==
    \E build \in Builds :
        \E r \in { voxelized_tract(tractography, resolution, build) } :
            /\ op' = "voxelized_tract"
            /\ raised' = r.raised
            /\ returned' = IF r.raised = "" THEN "value" ELSE ""
            /\ N_log' = << >>
            /\ nn_log' = << >>
            /\ mn_' = NoRange
            /\ mx_' = NoRange
            /\ voxels' = r.voxels
            /\ voxels1' = {}
            /\ chance_log' = << >>
            /\ volume' = NaN
            /\ table' = EmptyTable
            /\ UNCHANGED <<Inputs, grid, smoothed, std, N_neighbors>>

TractVolume ==
    \E build \in Builds :
        \E r \in { tract_volume(tractography, resolution, build) } :
            /\ op' = "tract_volume"
            /\ raised' = r.raised
            /\ returned' = IF r.raised = "" THEN "value" ELSE ""
            /\ N_log' = << >>
            /\ nn_log' = << >>
            /\ mn_' = NoRange
            /\ mx_' = NoRange
            /\ voxels' = r.voxels
            /\ voxels1' = {}
            /\ chance_log' = << >>
            /\ volume' = r.volume
            /\ table' = EmptyTable
            /\ UNCHANGED <<Inputs, grid, smoothed, std, N_neighbors>>

\* A zero resolution is left to VoxelizedTract, TractVolume and TractDice: the
\* voxel indices it gives are build-specific extremes of int64, and the float
\* arithmetic of kappa on them is outside the exact arithmetic of the model.
TractKappa ==
    /\ resolution # 0
    /\ \E build \in Builds :
        \E r \in { tract_kappa(tractography, resolution, other_tracts, files, build) } :
            /\ op' = "tract_kappa"
            /\ raised' = r.raised
            /\ returned' = IF r.raised = "" THEN "value" ELSE ""
            /\ N_log' = r.Ns
            /\ nn_log' = r.nns
            /\ mn_' = NoRange
            /\ mx_' = NoRange
            /\ voxels' = r.voxels
            /\ voxels1' = r.voxels1
            /\ chance_log' = r.chances
            /\ volume' = NaN
            /\ table' = r.table
            /\ UNCHANGED <<Inputs, grid, smoothed, std, N_neighbors>>

TractKappaVolume ==
    \E r \in { tract_kappa_volume(tractography) } :
        /\ op' = "tract_kappa_volume"
        /\ raised' = r.raised
        /\ returned' = ""
        /\ voxels' = {}
        /\ voxels1' = {}
        /\ chance_log' = << >>
        /\ N_log' = << >>
        /\ nn_log' = << >>
        /\ mn_' = NoRange
        /\ mx_' = NoRange
        /\ volume' = NaN
        /\ table' = EmptyTable
        /\ UNCHANGED <<Inputs, grid, smoothed, std, N_neighbors>>

TractDice ==
    \E build \in Builds :
        \E r \in { tract_dice(tractography, resolution, other_tracts, files, build) } :
            /\ op' = "tract_dice"
            /\ raised' = r.raised
            /\ returned' = IF r.raised = "" THEN "value" ELSE ""
            /\ N_log' = r.Ns
            /\ nn_log' = r.nns
            /\ mn_' = NoRange
            /\ mx_' = NoRange
            /\ voxels' = r.voxels
            /\ voxels1' = r.voxels1
            /\ chance_log' = r.chances
            /\ volume' = NaN
            /\ table' = r.table
            /\ UNCHANGED <<Inputs, grid, smoothed, std, N_neighbors>>

TractBhattacharyyaCoefficient ==
    \E numpy \in Numpys :
        \E r \in { tract_bhattacharyya_coefficient(tractography, resolution, other_tracts,
                                                   files, numpy) } :
            /\ op' = "tract_bhattacharyya_coefficient"
            /\ raised' = r.raised
            /\ returned' = r.returned
            /\ voxels' = {}
            /\ voxels1' = {}
            /\ chance_log' = << >>
            /\ N_log' = << >>
            /\ nn_log' = << >>
            /\ mn_' = r.mn
            /\ mx_' = r.mx
            /\ volume' = NaN
            /\ table' = r.table
            /\ UNCHANGED <<Inputs, grid, smoothed, std, N_neighbors>>

Next ==
    \/ VoxelizedTract
    \/ TractVolume
    \/ TractKappa
    \/ TractKappaVolume
    \/ TractDice
    \/ TractBhattacharyyaCoefficient

Spec == Init /\ [][Next]_vars

----------------------------------------------------------------------------
(* tract_mask and tract_probability_map *)

\* An image is its shape and its affine.  The affines of the model are the
\* diagonal ones: physical = scale * index + origin on each axis, scale and
\* origin in fixed point.  A voxel coordinate is the rational << num, den >>.
Singular(img) == \E a \in 1..3 : img.scale[a] = 0

\* the solution of affine . (i, j, k, 1) = (x, y, z, 1) for one point
to_ijk(img, p) == [a \in 1..3 |-> << p[a] - img.origin[a], img.scale[a] >>]

\* tract_in_ijk: numpy.vstack raises ValueError without streamlines,
\* linalg.solve raises LinAlgError for a singular affine
tract_in_ijk(img, tracts) ==
    IF Len(tracts) = 0 THEN [raised |-> "ValueError", ijk |-> << >>]
    ELSE IF Singular(img) THEN [raised |-> "LinAlgError", ijk |-> << >>]
    ELSE [raised |-> "",
          ijk |-> [j \in 1..Len(vstack(tracts)) |-> to_ijk(img, vstack(tracts)[j])]]

\* each_tract_in_ijk: linalg.inv is called once per streamline
each_tract_in_ijk(img, tracts) ==
    IF Len(tracts) > 0 /\ Singular(img) THEN [raised |-> "LinAlgError", ijk_tracts |-> << >>]
    ELSE [raised |-> "",
          ijk_tracts |-> [i \in 1..Len(tracts) |->
                            [j \in 1..Len(tracts[i]) |-> to_ijk(img, tracts[i][j])]]]

\* the coordinate num / den rounded to nearest, the mistake of a cast that rounds
clip_cast_rounding(num, den, hi) ==
    LET n == IF den < 0 THEN - num ELSE num
        d == Abs(den)
    IN  IF n < 0 THEN 0
        ELSE IF n > hi * d THEN hi
        ELSE RoundHalfEven(n, d)

\* .clip(0, shape - 1).astype(int) of the coordinate num / den: after the clip
\* the value is not negative, and the cast truncates
clip_cast(num, den, hi) ==
    LET n == IF den < 0 THEN - num ELSE num
        d == Abs(den)
    IN  IF n < 0 THEN 0
        ELSE IF n > hi * d THEN hi
        ELSE n \div d

ijk_clipped(img, ijk_points) ==
    [j \in 1..Len(ijk_points) |->
        << clip_cast(ijk_points[j][1][1], ijk_points[j][1][2], img.shape[1] - 1),
           clip_cast(ijk_points[j][2][1], ijk_points[j][2][2], img.shape[2] - 1),
           clip_cast(ijk_points[j][3][1], ijk_points[j][3][2], img.shape[3] - 1) >>]

Cells(shape) == (0..(shape[1] - 1)) \X (0..(shape[2] - 1)) \X (0..(shape[3] - 1))

\* numpy.zeros_like(image_data, dtype=float)
zeros_like(shape) == [c \in Cells(shape) |-> FInt(0)]

\* a[idx] = value
set_at(g, idx, value) ==
    [c \in DOMAIN g |-> IF c \in Range(idx) THEN value ELSE g[c]]

\* one increment for every occurrence of a cell in idx, as numpy.add.at does
iadd_at_every_occurrence(g, idx) ==
    [c \in DOMAIN g |->
        FAddV(g[c], FInt(Cardinality({ j \in 1..Len(idx) : idx[j] = c })))]

\* a[idx] += 1, which numpy evaluates as a[idx] = a[idx] + 1: a cell that
\* occurs several times in idx is incremented once
iadd_at(g, idx) ==
    [c \in DOMAIN g |-> IF c \in Range(idx) THEN FAddV(g[c], FInt(1)) ELSE g[c]]

tract_mask(img, tracts) ==
    CHOOSE r \in
        { IF t.raised # "" THEN [raised |-> t.raised, grid |-> << >>]
          ELSE [raised |-> "",
                grid |-> CHOOSE m \in { set_at(z, idx, FInt(1))
                                        : z \in { zeros_like(img.shape) },
                                          idx \in { ijk_clipped(img, t.ijk) } } : TRUE]
          : t \in { tract_in_ijk(img, tracts) } } : TRUE

\* the loop of tract_probability_map over the streamlines i..Len(ijk_tracts)
RECURSIVE probability_loop(_, _, _, _)
probability_loop(img, ijk_tracts, i, g) ==
    IF i > Len(ijk_tracts) THEN g
    ELSE CHOOSE r \in
            { probability_loop(img, ijk_tracts, i + 1, next)
              : next \in { iadd_at(g0, idx)
                           : g0 \in { g }, idx \in { ijk_clipped(img, ijk_tracts[i]) } } } : TRUE

\* probability_map /= len(ijk_tracts): a numpy division, nan for 0 / 0
tract_probability_map(img, tracts) ==
    CHOOSE r \in
        { IF t.raised # "" THEN [raised |-> t.raised, grid |-> << >>]
          ELSE [raised |-> "",
                grid |-> CHOOSE m \in
                    { [c \in DOMAIN g |-> FDivV(g[c], FInt(Len(t.ijk_tracts)))]
                      : g \in { probability_loop(img, t.ijk_tracts, 1, zeros_like(img.shape)) } } : TRUE]
          : t \in { each_tract_in_ijk(img, tracts) } } : TRUE

----------------------------------------------------------------------------
(* tract_generate_probability_map *)

\* prob_map + new_prob_map - (prob_map * new_prob_map), cell by cell
or_combine(prob_map, new_prob_map) ==
    [c \in DOMAIN prob_map |->
        FSub(FAdd(prob_map[c], new_prob_map[c]), FMul(prob_map[c], new_prob_map[c]))]

\* the loop over tractographies[1:], each a pair << file name, streamlines >>;
\* a tractography without streamlines is skipped
RECURSIVE generate_loop(_, _, _)
generate_loop(img, rest, prob_map) ==
    IF Len(rest) = 0 THEN [raised |-> "", grid |-> prob_map]
    ELSE IF Len(Head(rest)[2]) = 0 THEN generate_loop(img, Tail(rest), prob_map)
    ELSE CHOOSE r \in
            { IF m.raised # "" THEN [raised |-> m.raised, grid |-> << >>]
              ELSE generate_loop(img, Tail(rest), or_combine(prob_map, m.grid))
              : m \in { tract_mask(img, Head(rest)[2]) } } : TRUE

\* the first map is tract_probability_map of tractographies[0], the others
\* are tract_mask
tract_generate_probability_map(tractographies, img) ==
    IF Len(tractographies) = 0 THEN [raised |-> "IndexError", grid |-> << >>]
    ELSE CHOOSE r \in
            { IF first.raised # "" THEN [raised |-> first.raised, grid |-> << >>]
              ELSE generate_loop(img, Tail(tractographies), first.grid)
              : first \in { tract_probability_map(img, tractographies[1][2]) } } : TRUE

----------------------------------------------------------------------------
(* The inputs and the operations on image grids *)

\* the tractography files handed to tract_generate_probability_map after the first
GroupNames == {"shifted.vtk", "corner.vtk", "empty.vtk"}

GroupFiles(tracts) ==
    [f \in GroupNames |->
        IF f = "shifted.vtk" THEN Translate(tracts, <<Unit, 0, 0>>)
        ELSE IF f = "corner.vtk" THEN << Corner >>
        ELSE << >>]

\* the argument tractographies: the pairs << file name, tractography >>
Tractographies ==
    << <<"tract.vtk", tractography>> >>
        \o [i \in 1..Len(other_tracts) |-> << other_tracts[i], files[other_tracts[i]] >>]

\* the identity affine on a grid that holds the catalogue
ImgUnit == [shape |-> <<4, 3, 3>>, scale |-> <<Unit, Unit, Unit>>, origin |-> <<0, 0, 0>>]
\* voxels of edge 2, the grid starting at x = 1: points fall between and outside cells
ImgCoarse == [shape |-> <<2, 2, 1>>, scale |-> <<2 * Unit, 2 * Unit, 2 * Unit>>,
              origin |-> <<Unit, 0, 0>>]
\* the x axis flipped
ImgFlip == [shape |-> <<3, 3, 3>>, scale |-> <<- Unit, Unit, Unit>>,
            origin |-> <<2 * Unit, 0, 0>>]
\* an affine that cannot be inverted
ImgSingular == [shape |-> <<2, 2, 2>>, scale |-> <<0, Unit, Unit>>, origin |-> <<0, 0, 0>>]

Images == { ImgUnit, ImgCoarse, ImgFlip, ImgSingular }

InitRaster ==
    /\ tractography \in TractsUpTo(MaxTracts)
    /\ loaded = tractography
    /\ image \in Images
    /\ resolution = Unit
    /\ other_tracts \in SeqsUpTo(GroupNames, MaxOthers)
    /\ files = GroupFiles(tractography)
    /\ var = 0
    /\ NoResult

TractMask ==
    \E r \in { tract_mask(image, tractography) } :
        /\ op' = "tract_mask"
        /\ raised' = r.raised
        /\ returned' = IF r.raised = "" THEN "value" ELSE ""
        /\ grid' = r.grid
        /\ UNCHANGED <<Inputs, voxels, voxels1, chance_log, volume, table, smoothed,
                       N_log, nn_log, mn_, mx_, std, N_neighbors>>

TractProbabilityMap ==
    \E r \in { tract_probability_map(image, tractography) } :
        /\ op' = "tract_probability_map"
        /\ raised' = r.raised
        /\ returned' = IF r.raised = "" THEN "value" ELSE ""
        /\ grid' = r.grid
        /\ UNCHANGED <<Inputs, voxels, voxels1, chance_log, volume, table, smoothed,
                       N_log, nn_log, mn_, mx_, std, N_neighbors>>

TractGenerateProbabilityMap ==
    \E r \in { tract_generate_probability_map(Tractographies, image) } :
        /\ op' = "tract_generate_probability_map"
        /\ raised' = r.raised
        /\ returned' = IF r.raised = "" THEN "value" ELSE ""
        /\ grid' = r.grid
        /\ UNCHANGED <<Inputs, voxels, voxels1, chance_log, volume, table, smoothed,
                       N_log, nn_log, mn_, mx_, std, N_neighbors>>

NextRaster == TractMask \/ TractProbabilityMap \/ TractGenerateProbabilityMap

SpecRaster == InitRaster /\ [][NextRaster]_vars

----------------------------------------------------------------------------
(* tract_smooth *)

\* A point of a streamline that is smoothed is << x, y, z, d >>: the coordinates
\* x / d, y / d, z / d in fixed point, d > 0 and the four reduced; a loaded
\* point has d = 1.  << 0, 0, 0, 0 >> is a point of nan coordinates.
NaNPoint == << 0, 0, 0, 0 >>
Loaded(x, y, z) == << x, y, z, 1 >>

GCD4(x, y, z, d) == GCD(GCD(Abs(x), Abs(y)), GCD(Abs(z), Abs(d)))
\* the point (x, y, z) / d, d > 0
Reduced(x, y, z, d) ==
    CHOOSE r \in { << x \div g, y \div g, z \div g, d \div g >> : g \in { GCD4(x, y, z, d) } } : TRUE

Sub3(a, b) == << a[1] - b[1], a[2] - b[2], a[3] - b[3] >>
Dot3(a, b) == a[1] * b[1] + a[2] * b[2] + a[3] * b[3]
Dist2(a, b) == Dot3(Sub3(a, b), Sub3(a, b))

\* f[1] + ... + f[n]
RECURSIVE Sum(_, _)
Sum(f, n) == IF n = 0 THEN 0 ELSE f[n] + Sum(f, n - 1)

\* The weights are kept in fixed point, WScale standing for the weight 1.
WScale == 16

\* the argument of the exponential, - .5 * distance ** 2 / std with
\* std = var ** 2, as the rational << num, den >> of its absolute value
std_of(v) == v * v
kernel_exponent(d2, v) == << d2, 2 * std_of(v) >>

\* exp(- num / den) in fixed point.  exp is replaced by the rational function
\* 1 / (1 + x + x^2 / 2), which like exp(-x) is 1 at 0, positive and
\* strictly decreasing for x >= 0.
Exp(e) ==
    (WScale * 2 * e[2] * e[2]) \div (2 * e[2] * e[2] + 2 * e[1] * e[2] + e[1] * e[1])

\* |diff|^2 times the tangent component of dv: (diff . dv) diff
tangent_component(diff, dv) ==
    << diff[1] * Dot3(diff, dv), diff[2] * Dot3(diff, dv), diff[3] * Dot3(diff, dv) >>

\* |diff|^2 times the projection of dv on the plane normal to the tangent
\* diff / |diff|: (I - t t^T) dv, with t t^T = diff diff^T / |diff|^2
projected_vector(diff, dv) ==
    << Dot3(diff, diff) * dv[1] - diff[1] * Dot3(diff, dv),
       Dot3(diff, diff) * dv[2] - diff[2] * Dot3(diff, dv),
       Dot3(diff, diff) * dv[3] - diff[3] * Dot3(diff, dv) >>

\* numpy.diff(tract, axis=0) with its last row repeated; Len(tract) >= 2
diff_of(tract) ==
    [j \in 1..Len(tract) |->
        IF j < Len(tract) THEN Sub3(tract[j + 1], tract[j])
        ELSE Sub3(tract[Len(tract)], tract[Len(tract) - 1])]

\* len(d) for d in bt.query_radius(tract, var * 3): the indexed points within
\* the distance 3 * var of point p
radius_count(all, p, v) ==
    Cardinality({ i \in 1..Len(all) : Dist2(all[i], p) <= 9 * v * v })

\* How bt.query orders points at the same distance is left to the tree: the
\* model takes them by ascending or by descending index.
Ties == {"low", "high"}

\* bt.query(tract, N) for one point: the indices of the N nearest indexed points
nearest(all, p, N, tie) ==
    { i \in 1..Len(all) :
        Cardinality({ j \in 1..Len(all) :
            \/ Dist2(all[j], p) < Dist2(all[i], p)
            \/ /\ Dist2(all[j], p) = Dist2(all[i], p)
               /\ IF tie = "low" THEN j < i ELSE j > i }) < N }

\* the weighted point of p: the sum over the neighbours nb of
\* weight * (projected_vector + p), the weights normalised to sum to 1
weighted_point(all, p, diff, nb, v) ==
    LET w == [i \in 1..Len(all) |->
                IF i \in nb THEN Exp(kernel_exponent(Dist2(all[i], p), v)) ELSE 0]
        pv == [i \in 1..Len(all) |-> projected_vector(diff, Sub3(all[i], p))]
        total == Dot3(diff, diff) * Sum(w, Len(all))
        s(a) == Sum([i \in 1..Len(all) |-> w[i] * pv[i][a]], Len(all))
    IN  IF Dot3(diff, diff) = 0 THEN NaNPoint
        ELSE Reduced(p[1] * total + s(1), p[2] * total + s(2), p[3] * total + s(3), total)

\* N = max(len(d) for d in bt.query_radius(tract, var * 3))
neighbor_count(all, tract, v) == Max({ radius_count(all, tract[j], v) : j \in 1..Len(tract) })

\* the body of the loop of tract_smooth for one streamline: its weighted points
smooth_tract(all, tract, v, tie) ==
    CHOOSE r \in
        { [j \in 1..Len(tract) |->
              weighted_point(all, tract[j], diff[j], nearest(all, tract[j], N, tie), v)]
          : diff \in { diff_of(tract) },
            N \in { neighbor_count(all, tract, v) } } : TRUE

\* the points of the arrays of the tractography as they are now, the mistake
\* of an index that is not built on a copy
indexed_points_live(all, tracts) == vstack(tracts)

\* the points that bt.query_radius and bt.query search and that
\* all_points[close_point_indices] reads: all_points, the copy that
\* numpy.vstack made before the loop
indexed_points(all, tracts) == all

\* the loop over the streamlines from the i-th on.  tracts are the arrays of
\* the tractography itself: tract[:] = weighted_points writes into them.
\* diff[-1] of a streamline of fewer than 2 points raises IndexError.
\* Ns are the neighbour counts N of the streamlines smoothed so far.
RECURSIVE smooth_loop(_, _, _, _, _, _)
smooth_loop(tracts, all, v, tie, i, Ns) ==
    IF i > Len(tracts) THEN [raised |-> "", tracts |-> tracts, Ns |-> Ns]
    ELSE IF Len(tracts[i]) < 2 THEN [raised |-> "IndexError", tracts |-> tracts, Ns |-> Ns]
    ELSE CHOOSE r \in
            { smooth_loop(step.next, all, v, tie, i + 1, Append(Ns, step.N))
              : step \in { [next |-> [tracts EXCEPT ![i] = smooth_tract(idx, tracts[i], v, tie)],
                            N |-> neighbor_count(idx, tracts[i], v)]
                           : idx \in { indexed_points(all, tracts) } } } : TRUE

\* numpy.vstack raises ValueError without streamlines, BallTree without points;
\* all_points is a copy, the tree is built on it before the loop.  The
\* Tractography returned is made of the arrays of the input.
tract_smooth(tracts, v, tie) ==
    IF Len(tracts) = 0 \/ Len(vstack(tracts)) = 0
    THEN [raised |-> "ValueError", tracts |-> tracts, returned |-> << >>,
          std |-> std_of(v), Ns |-> << >>]
    ELSE CHOOSE out \in
            { [raised |-> r.raised, tracts |-> r.tracts,
               returned |-> IF r.raised = "" THEN r.tracts ELSE << >>,
               std |-> std_of(v), Ns |-> r.Ns]
              : r \in { smooth_loop(tracts, vstack(tracts), v, tie, 1, << >>) } } : TRUE

----------------------------------------------------------------------------
(* The inputs and the operation of smoothing *)

LineX == << Loaded(0, 0, 0), Loaded(Unit, 0, 0), Loaded(2 * Unit, 0, 0) >>
\* a straight line of uneven steps
LineDiag == << Loaded(0, 0, 0), Loaded(Unit, Unit, 0), Loaded(3 * Unit, 3 * Unit, 0) >>
\* points on one line, the streamline turning back on itself
LineBack == << Loaded(0, 0, 0), Loaded(2 * Unit, 0, 0), Loaded(Unit, 0, 0) >>
Bent == << Loaded(0, 0, 0), Loaded(Unit, 0, 0), Loaded(Unit, Unit, 0) >>
\* a line beside LineX
Beside == << Loaded(0, Half, 0), Loaded(Unit, Half, 0) >>
\* two consecutive points at the same place
Repeated == << Loaded(0, 0, 0), Loaded(0, 0, 0), Loaded(Unit, 0, 0) >>
OnePoint == << Loaded(0, 0, Unit) >>
\* two points further apart than 3 * var for the smallest var
Sparse == << Loaded(0, 0, 0), Loaded(2 * Unit, 0, 0) >>

SmoothCatalogue == { LineX, LineDiag, LineBack, Bent, Beside, Repeated, OnePoint, Sparse }

\* the <var> arguments of the model: 0.5, 1 and 2
Vars == { Half, Unit, 2 * Unit }

InitSmooth ==
    /\ tractography \in SeqsUpTo(SmoothCatalogue, MaxTracts)
    /\ loaded = tractography
    /\ var \in Vars
    /\ resolution = Unit
    /\ other_tracts = << >>
    /\ files = FileSystem(<< >>)
    /\ image = NoImage
    /\ NoResult

\* tract_smooth is modelled for a call on the tractography as loaded
TractSmooth ==
    /\ op = ""
    /\ \E tie \in Ties :
        \E r \in { tract_smooth(tractography, var, tie) } :
            /\ op' = "tract_smooth"
            /\ raised' = r.raised
            /\ tractography' = r.tracts
            /\ smoothed' = r.returned
            /\ returned' = IF r.raised = "" THEN "value" ELSE ""
            /\ std' = r.std
            /\ N_neighbors' = r.Ns
            /\ UNCHANGED <<loaded, resolution, other_tracts, files, image, var,
                           voxels, voxels1, chance_log, volume, table, grid,
                           N_log, nn_log, mn_, mx_>>

NextSmooth == TractSmooth

SpecSmooth == InitSmooth /\ [][NextSmooth]_vars

----------------------------------------------------------------------------
(* Properties of the operations on voxel sets *)

\* the voxels that share a face with v
FaceAdjacent(v) ==
    { w \in { << v[1] + dx, v[2] + dy, v[3] + dz >> : dx \in -1..1, dy \in -1..1, dz \in -1..1 }
        : Abs(w[1] - v[1]) + Abs(w[2] - v[2]) + Abs(w[3] - v[3]) = 1 }
\* D: V united with the face-adjacent neighbours of every voxel of V
DilatedSet(V) == V \cup { w \in UNION { FaceAdjacent(v) : v \in V } : TRUE }
\* E: the voxels of V whose face-adjacent neighbours are all in V
ErodedSet(V) == { v \in V : FaceAdjacent(v) \subseteq V }

VolumeReturned == op = "tract_volume" /\ raised = "" /\ resolution > 0

\* C1: for a positive resolution r, tract_volume returns (|D| - |E|) / 2 * r^3
\* with D the dilation and E the erosion of the voxel set V by the 6 face
\* neighbours; a single voxel gives |D| = 7, |E| = 0 and 3.5 * r^3.
C1_VolumeFormula ==
    VolumeReturned =>
        /\ volume = Fin((Cardinality(DilatedSet(voxels)) - Cardinality(ErodedSet(voxels)))
                            * resolution * resolution * resolution,
                        2 * Unit * Unit * Unit)
        /\ Cardinality(voxels) = 1 =>
              /\ Cardinality(DilatedSet(voxels)) = 7
              /\ ErodedSet(voxels) = {}
              /\ volume = Fin(7 * resolution * resolution * resolution, 2 * Unit * Unit * Unit)

\* a volume was returned for a voxel set with an interior voxel
C1_Witness == VolumeReturned /\ ErodedSet(voxels) # {} /\ Cardinality(voxels) > 7

ShiftX(V) == { << v[1] + 1, v[2], v[3] >> : v \in V }

\* the reference tractography was compared with its translation by (1,0,0) at
\* resolution 1.0, and both voxel sets were computed
TranslatedCompared ==
    /\ op = "tract_dice"
    /\ raised = ""
    /\ resolution = Unit
    /\ other_tracts = << "shifted.vtk" >>

\* C4: when B is A translated by exactly (1,0,0), at resolution 1.0 the voxel
\* set of B is the voxel set of A with every x index increased by 1, also for
\* points whose x coordinate lies halfway between two integers.
C4_TranslationShiftsVoxels == TranslatedCompared => voxels1 = ShiftX(voxels)

\* C5: for a tractography without streamlines and a positive resolution,
\* voxelized_tract returns the empty voxel set without raising, and
\* tract_volume returns the volume 0.
C5_EmptyTractography ==
    (Len(tractography) = 0 /\ resolution > 0) =>
        /\ op = "voxelized_tract" => (raised = "" /\ voxels = {})
        /\ op = "tract_volume" => (raised = "" /\ volume = FInt(0))

PointCount(tracts) == Len(vstack(tracts))

\* C6: an operation that voxelizes with a zero or negative resolution fails
\* with InvalidResolutionError and returns no voxel set or metric value.
C6_NonPositiveResolutionFails ==
    (op \in {"voxelized_tract", "tract_volume", "tract_kappa", "tract_dice"}
        /\ resolution <= 0 /\ PointCount(tractography) > 0)
    => raised = "InvalidResolutionError"

\* a chance agreement of 1, or the chance agreement of a normalizer N = 0
\* (a division by zero: not finite)
DegenerateChance(c) == c = FInt(1) \/ ~ IsFin(c)

\* C7: in tract_kappa, a pair of voxel sets whose chance agreement is 1 (or
\* whose normalizer N is 0) makes the comparison fail with
\* DegenerateAgreementError; no kappa value is appended for the pair.
C7_DegenerateAgreementFails ==
    (op = "tract_kappa" /\ resolution > 0
        /\ \E i \in 1..Len(chance_log) : DegenerateChance(chance_log[i]))
    => (raised = "DegenerateAgreementError" /\ table = EmptyTable)

\* C8: in tract_dice, when both voxel sets compared are empty, the Dice
\* coefficient reported for the comparison is NaN and the operation completes
\* without raising.
C8_DiceOfEmptySetsIsNaN ==
    (op = "tract_dice" /\ resolution > 0
        /\ Len(tractography) > 0 /\ PointCount(tractography) = 0
        /\ Len(other_tracts) = 1
        /\ Len(files[other_tracts[1]]) > 0 /\ PointCount(files[other_tracts[1]]) = 0)
    => (raised = "" /\ table.values = << NaN >>)

----------------------------------------------------------------------------
(* Properties of the operations on image grids *)

\* cell c holds the point p: on every axis the voxel coordinate v of p,
\* clipped into [0, shape - 1], lies in [c, c + 1)
InCell(img, p, c) ==
    \A a \in 1..3 :
        LET n == IF img.scale[a] < 0 THEN - (p[a] - img.origin[a]) ELSE p[a] - img.origin[a]
            d == Abs(img.scale[a])
            hi == img.shape[a] - 1
        IN  \/ c[a] = 0 /\ n < d
            \/ c[a] = hi /\ n >= hi * d
            \/ c[a] * d <= n /\ n < (c[a] + 1) * d

\* the streamlines with at least one point in cell c
Touching(img, tracts, c) ==
    { i \in 1..Len(tracts) : \E j \in 1..Len(tracts[i]) : InCell(img, tracts[i][j], c) }

Outside(img, p) ==
    \E a \in 1..3 :
        LET n == IF img.scale[a] < 0 THEN - (p[a] - img.origin[a]) ELSE p[a] - img.origin[a]
        IN  n < 0 \/ n >= img.shape[a] * Abs(img.scale[a])

\* C2: the grid of tract_mask is 1 at exactly the cells that hold a streamline
\* point (its voxel coordinates clipped into the grid) and 0 elsewhere,
\* however many points fall on a cell.
C2_MaskIsClippedPointSet ==
    (op = "tract_mask" /\ raised = "") =>
        /\ DOMAIN grid = Cells(image.shape)
        /\ \A c \in Cells(image.shape) :
              grid[c] = IF Touching(image, tractography, c) # {} THEN FInt(1) ELSE FInt(0)

\* a mask was made of points of which one lies outside the grid and two, not
\* on a whole voxel coordinate, share a cell
C2_Witness ==
    /\ op = "tract_mask"
    /\ raised = ""
    /\ \E i \in 1..Len(tractography) : \E j \in 1..Len(tractography[i]) :
          Outside(image, tractography[i][j])
    /\ \E c \in Cells(image.shape) : \E i \in 1..Len(tractography) :
          \E j, k \in 1..Len(tractography[i]) :
              /\ j # k
              /\ InCell(image, tractography[i][j], c)
              /\ InCell(image, tractography[i][k], c)
              /\ (tractography[i][j][1] - image.origin[1]) % Abs(image.scale[1]) # 0

\* C3: for a tractography with streamlines, every cell of the grid of
\* tract_probability_map is (the number of streamlines with a point in the
\* cell) / (the number of streamlines), a value in [0, 1]; several points of a
\* streamline in one cell count once.
C3_ProbabilityIsFractionOfStreamlines ==
    (op = "tract_probability_map" /\ raised = "" /\ Len(tractography) > 0) =>
        \A c \in Cells(image.shape) :
            /\ grid[c] = Fin(Cardinality(Touching(image, tractography, c)), Len(tractography))
            /\ IsFin(grid[c]) /\ 0 <= grid[c].n /\ grid[c].n <= grid[c].d

\* a map was made of two streamlines, one of them with two points in a cell
\* that the other does not touch
C3_Witness ==
    /\ op = "tract_probability_map"
    /\ raised = ""
    /\ Len(tractography) = 2
    /\ \E c \in Cells(image.shape) :
          /\ grid[c] = Fin(1, 2)
          /\ \E i \in 1..2 : \E j, k \in 1..Len(tractography[i]) :
                j # k /\ InCell(image, tractography[i][j], c) /\ InCell(image, tractography[i][k], c)

----------------------------------------------------------------------------
(* Properties of smoothing *)

\* C9: tract_smooth leaves its input unchanged, whether it returns or raises
\* part-way: every point of the tractography it was called on keeps the
\* coordinates it had before the call.
C9_SmoothLeavesInputUnchanged == op = "tract_smooth" => tractography = loaded

Cross3(a, b) ==
    << a[2] * b[3] - a[3] * b[2], a[3] * b[1] - a[1] * b[3], a[1] * b[2] - a[2] * b[1] >>
\* all the points of the streamline lie on one line
Collinear(tract) ==
    \A j, k \in 1..Len(tract) :
        Cross3(Sub3(tract[j], tract[1]), Sub3(tract[k], tract[1])) = << 0, 0, 0 >>
ConsecutiveDistinct(tract) ==
    \A j \in 1..(Len(tract) - 1) : Sub3(tract[j + 1], tract[j]) # << 0, 0, 0 >>

\* the tractography smoothed was a single straight streamline
StraightLineSmoothed ==
    /\ op = "tract_smooth"
    /\ Len(loaded) = 1
    /\ Len(loaded[1]) >= 2
    /\ Collinear(loaded[1])
    /\ ConsecutiveDistinct(loaded[1])

\* C10: smoothing a tractography of one straight streamline (collinear
\* points, consecutive points distinct) returns every point where it was, for
\* every positive variance parameter and neighbour count.
C10_StraightLineUnchanged ==
    StraightLineSmoothed => (raised = "" /\ smoothed = loaded)

\* a straight streamline of three points was smoothed with a radius that
\* reaches from a point to another one
C10_Witness ==
    /\ StraightLineSmoothed
    /\ Len(loaded[1]) >= 3
    /\ \E j, k \in 1..Len(loaded[1]) :
          j # k /\ Dist2(loaded[1][j], loaded[1][k]) <= 9 * var * var

----------------------------------------------------------------------------
(* Properties of the comparisons *)

\* the float a is a finite number in [0, 1]
InUnitInterval(a) == a.k = "fin" /\ 0 <= a.n /\ a.n <= a.d

\* tract_kappa has compared two non-empty voxel sets at a positive resolution;
\* voxels1, the last entries of N_log, nn_log and chance_log are those of the
\* last comparison made
KappaCompared ==
    /\ op = "tract_kappa"
    /\ resolution > 0
    /\ Len(N_log) > 0
    /\ voxels # {}
    /\ voxels1 # {}

\* C16: in tract_kappa, for non-empty voxel sets A and B, the normalizer N is
\* not 0 and at least |A union B|, the true-negative count nn is not negative,
\* and the chance agreement lies in [0, 1].
C16_KappaNormalizerCoversUnion ==
    KappaCompared =>
        /\ N_log[Len(N_log)] # 0
        /\ N_log[Len(N_log)] >= Cardinality(voxels \cup voxels1)
        /\ nn_log[Len(nn_log)].k = "fin"
        /\ nn_log[Len(nn_log)].n >= 0
        /\ InUnitInterval(chance_log[Len(chance_log)])

FanIn == {"tract_kappa", "tract_dice", "tract_bhattacharyya_coefficient"}

ComparedPoints ==
    Range(vstack(tractography))
        \cup UNION { Range(vstack(files[other_tracts[i]])) : i \in 1..Len(other_tracts) }

\* C15: in tract_bhattacharyya_coefficient the histogram range is the bounding
\* box of the points of the reference and of all comparison files: on every
\* axis mn_ is their least and mx_ their greatest coordinate.
C15_RangeIsBoundingBoxOfUnion ==
    (op = "tract_bhattacharyya_coefficient" /\ raised = "") =>
        \A a \in 1..3 :
            /\ mn_[a] = Min({ q[a] : q \in ComparedPoints })
            /\ mx_[a] = Max({ q[a] : q \in ComparedPoints })

----------------------------------------------------------------------------
(* Properties of tract_generate_probability_map *)

\* cell c holds a point of a streamline of one of the sets of the group
TouchedByGroup(c) ==
    \E g \in 1..Len(Tractographies) : Touching(image, Tractographies[g][2], c) # {}

\* C11: for a group of streamline sets S1..Sn, S1 with streamlines, the grid
\* of tract_generate_probability_map is the OR of the binary masks of the
\* sets: 1 in every cell that a point of any Si touches, S1 included and also
\* when only some streamlines of S1 touch the cell, and 0 in every other cell.
C11_GroupMapIsOrOfMasks ==
    (op = "tract_generate_probability_map" /\ raised = "" /\ Len(tractography) > 0) =>
        \A c \in Cells(image.shape) :
            grid[c] = IF TouchedByGroup(c) THEN FInt(1) ELSE FInt(0)

----------------------------------------------------------------------------
(* Properties of the data flow and of the kernel of smoothing *)

\* C13: every streamline that tract_smooth has smoothed is computed from the
\* coordinates as loaded only: its tangents and projection centres are its own
\* loaded points and its neighbours are loaded points, so that it is the
\* smoothing of the loaded streamline against the loaded points whatever was
\* smoothed before it; the streamlines not reached are as loaded.
C13_SmoothingReadsLoadedGeometry ==
    op = "tract_smooth" =>
        \E tie \in Ties :
            \A i \in 1..Len(loaded) :
                tractography[i] =
                    IF i <= Len(N_neighbors)
                    THEN smooth_tract(vstack(loaded), loaded[i], var, tie)
                    ELSE loaded[i]

\* two streamlines were smoothed, the first was moved, and a point of the
\* first that moved is within the radius of a point of the second
C13_Witness ==
    /\ op = "tract_smooth"
    /\ raised = ""
    /\ Len(loaded) >= 2
    /\ \E k \in 1..Len(loaded[1]) : \E j \in 1..Len(loaded[2]) :
          /\ tractography[1][k] # loaded[1][k]
          /\ Dist2(loaded[1][k], loaded[2][j]) <= 9 * var * var

\* the indexed points within the distance 3 * sqrt(v) of p, v = var / Unit
WithinThreeRootVar(p) ==
    { k \in 1..Len(vstack(loaded)) : Dist2(vstack(loaded)[k], p) <= 9 * var * Unit }

\* C14: with the variance parameter v, the neighbour count of a streamline is
\* the greatest number of indexed points within 3 * sqrt(v) of one of its
\* points, and the weights are exp(- d^2 / (2 * v)): the kernel variance std
\* is v itself.
C14_RadiusAndKernelFollowVariance ==
    (op = "tract_smooth" /\ raised = "") =>
        /\ std = var * Unit
        /\ \A i \in 1..Len(loaded) :
              N_neighbors[i] =
                  Max({ Cardinality(WithinThreeRootVar(loaded[i][j])) : j \in 1..Len(loaded[i]) })

====
